---------------------------- MODULE Spec2Model ----------------------------
(***************************************************************************)
(* Model of hplc_interface.HplcInterface: one-shot setup and verified      *)
(* configuration (start, _setup, _setup_modular_clients, _configure), the  *)
(* self-rescheduling sampling callback (_sample), stop(), and the SIGINT   *)
(* handler that calls stop() from the main thread while the timer thread   *)
(* may be inside _sample.                                                  *)
(*                                                                         *)
(* Threads: "main" runs main() -> start(); "tick" is the threading.Timer   *)
(* thread running _sample; "handler" is _signal_handler, which Python runs *)
(* on the main thread between two bytecodes of whatever main is doing, so  *)
(* main does not advance while the handler is active, but the timer thread *)
(* does.                                                                   *)
(***************************************************************************)
EXTENDS Integers, Sequences, FiniteSets, TLC

(***************************************************************************)
(* Program constants.                                                      *)
(***************************************************************************)
WAVELENGTH_COUNT == 4
SECONDS_PER_MINUTE == 60

(***************************************************************************)
(* Bounds of the model.                                                    *)
(***************************************************************************)
MaxLen == 5          \* longest requested wavelength list
MaxProps == 2        \* most gradient properties in config.yaml
MaxTicks == 3        \* timer firings in one run (one per second)
MaxInterrupts == 2   \* SIGINTs delivered in one run

(***************************************************************************)
(* Values the environment supplies.                                        *)
(***************************************************************************)
WavelengthValues == {254, 280}
PropertyValues == {1, 2}
Phases == {"GRADIENT_NOT_STARTED", "RUNNING", "FINISHED"}
DetectorStatuses == {"MEASUREMENT", "AUTOZERO"}
Concentrations == {10, 35}
\* get_absorbances() answers in thousandths of an absorbance unit here
AbsorbanceReadings == {0, 1236}

None == -1

SeqsUpTo(S, n) == UNION {[1..k -> S] : k \in 0..n}

VARIABLES
  \* the world outside the process
  hcConnected,         \* 'hplc_controller' in ModularClients
  udiConnected,        \* 'ultraviolet_detector_interface' in ModularClients
  detectorPresent,     \* get_detector_info() answers (no IOError)
  gradient,            \* config['gradient']: the targets, in file order
  held,                \* value the controller holds for each gradient property
  requested,           \* config['detector']['wavelengths'] as loaded
  now,                 \* time.time(), in seconds since construction
  \* fields of the HplcInterface object
  is_setup,
  is_running,
  detector_connected,
  wavelengths,         \* self._wavelengths
  data_fieldnames,     \* self._data_fieldnames
  has_been_injected,   \* self._has_been_injected
  injection_time,      \* self._injection_time (None == -1)
  sample_timer,        \* state of the Timer self._sample_timer refers to
  \* files
  dataDir,             \* os.makedirs(self._data_path) done
  dataFile,            \* self._data_file: "none" | "open" | "closed"
  rows,                \* rows written by self._data_writer.writerow
  \* control state
  pc,                  \* position of main, handler and tick
  gradIdx,             \* index of the for loop over gradient properties
  loc,                 \* locals of the running _sample call
  error,               \* exception that ended start() or _sample
  \* observation of calls made on the devices and the sink
  calls,               \* counters of device / sink calls, by name
  tk,                  \* what the current (or last) _sample call did
  observed,            \* gradient state each _sample call was given, in order
  interrupts           \* SIGINTs delivered so far

vars == <<hcConnected, udiConnected, detectorPresent, gradient, held, requested,
          now, is_setup, is_running, detector_connected, wavelengths,
          data_fieldnames, has_been_injected, injection_time, sample_timer,
          dataDir, dataFile, rows, pc, gradIdx, loc, error, calls, tk,
          observed, interrupts>>

world == <<hcConnected, udiConnected, detectorPresent, gradient, held, requested>>

BaseFieldnames == <<"duration", "gradient_state", "concentration", "detector_status">>

NoCalls == [turn_lamp_on |-> 0, turn_lamp_off |-> 0, hplc_stop |-> 0,
            close |-> 0, autozero |-> 0, get_status |-> 0,
            get_absorbances |-> 0, set_wavelengths |-> 0,
            get_wavelengths |-> 0, property_get |-> 0, property_set |-> 0,
            get_gradient_info |-> 0]

NoLocals == [gradient_state |-> "", concentration |-> 0, detector_status |-> "",
             got_absorbances |-> FALSE, absorbances |-> <<>>]

NoTick == [stops |-> 0, closes |-> 0, rows |-> 0, scheduled |-> 0,
           phase |-> "", measured |-> ""]

Called(name) == calls' = [calls EXCEPT ![name] = @ + 1]

(***************************************************************************)
(* __init__ (lines 47-64): the state after construction.                   *)
(***************************************************************************)
InitObject ==
  /\ now = 0
  /\ is_setup = FALSE
  /\ is_running = FALSE
  /\ detector_connected = FALSE
  /\ wavelengths = <<>>
  /\ data_fieldnames = BaseFieldnames
  /\ has_been_injected = FALSE
  /\ injection_time = None
  /\ sample_timer = "none"
  /\ dataDir = FALSE
  /\ dataFile = "none"
  /\ rows = <<>>
  /\ pc = [main |-> "start", handler |-> "idle", tick |-> "idle"]
  /\ gradIdx = 0
  /\ loc = NoLocals
  /\ error = "none"
  /\ calls = NoCalls
  /\ tk = NoTick
  /\ observed = <<>>
  /\ interrupts = 0

Worlds ==
  /\ hcConnected \in BOOLEAN
  /\ udiConnected \in BOOLEAN
  /\ detectorPresent \in BOOLEAN
  /\ detectorPresent => udiConnected


(***************************************************************************)
(* Exceptions.  An exception raised on the main thread (in start(), or in  *)
(* the handler that interrupted it) propagates out of main() and ends the  *)
(* process; one raised in _sample ends the timer thread.                   *)
(***************************************************************************)
RaiseSwallowed(e) ==
  /\ pc' = [pc EXCEPT !.main = "run_flag"]
  /\ error' = e

Raise(e) ==
  /\ pc' = [pc EXCEPT !.main = "failed"]
  /\ error' = e

SetupErrors == {"ControllerNotConnected", "DetectorInterfaceNotConnected",
                "GradientMismatch", "WavelengthMismatch", "NameError"}

MainAt(label) == pc.main = label /\ pc.handler = "idle"

GotoMain(label) == pc' = [pc EXCEPT !.main = label]

(***************************************************************************)
(* start(), lines 176-178: run _setup unless already set up.               *)
(***************************************************************************)
StartEnter ==
  /\ MainAt("start")
  /\ GotoMain(IF ~is_setup THEN "load_config" ELSE "run_flag")
  /\ UNCHANGED <<world, now, is_setup, is_running, detector_connected,
                 wavelengths, data_fieldnames, has_been_injected,
                 injection_time, sample_timer, dataDir, dataFile, rows,
                 gradIdx, loc, error, calls, tk, observed, interrupts>>

(***************************************************************************)
(* _load_config_file, lines 106-112: self._config is the file's content    *)
(* (gradient, requested).                                                  *)
(***************************************************************************)
LoadConfigFile ==
  /\ MainAt("load_config")
  /\ GotoMain("clients")
  /\ UNCHANGED <<world, now, is_setup, is_running, detector_connected,
                 wavelengths, data_fieldnames, has_been_injected,
                 injection_time, sample_timer, dataDir, dataFile, rows,
                 gradIdx, loc, error, calls, tk, observed, interrupts>>

(***************************************************************************)
(* _setup_modular_clients, lines 114-144: both modular devices must be on  *)
(* the bus; the detector behind the interface is probed, and the lamp is   *)
(* turned on when it answers.                                              *)
(***************************************************************************)
SetupModularClients ==
  /\ MainAt("clients")
  /\ IF ~hcConnected
       THEN /\ Raise("ControllerNotConnected")
            /\ UNCHANGED <<detector_connected, calls>>
       ELSE IF ~udiConnected
         THEN /\ Raise("DetectorInterfaceNotConnected")
              /\ UNCHANGED <<detector_connected, calls>>
         ELSE /\ GotoMain("gradient")
              /\ detector_connected' = detectorPresent
              /\ IF detectorPresent
                   THEN Called("turn_lamp_on")
                   ELSE UNCHANGED calls
              /\ UNCHANGED error
  /\ UNCHANGED <<world, now, is_setup, is_running, wavelengths,
                 data_fieldnames, has_been_injected, injection_time,
                 sample_timer, dataDir, dataFile, rows, gradIdx, loc, tk,
                 observed, interrupts>>

(***************************************************************************)
(* _configure, lines 148-157: one iteration of the loop over the gradient  *)
(* properties.  Line 151 calls the property method with no argument, which *)
(* reads the value the controller holds; nothing is written.  After the    *)
(* last property, line 157 binds self._wavelengths to the requested list.  *)
(***************************************************************************)
PropertyRead(i) == held[i]

OnGradientMismatchContinues ==
  /\ error' = "GradientMismatch"
  /\ gradIdx' = gradIdx + 1
  /\ UNCHANGED pc

OnGradientMismatch ==
  /\ Raise("GradientMismatch")
  /\ UNCHANGED gradIdx

ConfigureGradient ==
  /\ MainAt("gradient")
  /\ IF gradIdx < Len(gradient)
       THEN /\ Called("property_get")
            /\ IF gradient[gradIdx + 1] = PropertyRead(gradIdx + 1)
                 THEN /\ gradIdx' = gradIdx + 1
                      /\ UNCHANGED <<pc, error>>
                 ELSE OnGradientMismatch
            /\ UNCHANGED wavelengths
       ELSE /\ wavelengths' = requested
            /\ GotoMain("normalize")
            /\ UNCHANGED <<gradIdx, error, calls>>
  /\ UNCHANGED <<world, now, is_setup, is_running, detector_connected,
                 data_fieldnames, has_been_injected, injection_time,
                 sample_timer, dataDir, dataFile, rows, loc, tk, observed, interrupts>>

(***************************************************************************)
(* _configure, lines 158-165: one iteration of the while loop that coerces *)
(* the list to WAVELENGTH_COUNT entries.  list.pop() drops the last entry. *)
(* The padding branch (line 163) reads the name `wavelengths`, which is    *)
(* bound nowhere in _configure or the module: it raises NameError.         *)
(***************************************************************************)
PopFirst(s) == SubSeq(s, 2, Len(s))

Pop(s) == SubSeq(s, 1, Len(s) - 1)

NormalizeWavelengths ==
  /\ MainAt("normalize")
  /\ LET wavelength_count_diff == Len(wavelengths) - WAVELENGTH_COUNT
     IN  IF wavelength_count_diff > 0
           THEN /\ wavelengths' = Pop(wavelengths)
                /\ UNCHANGED <<pc, error>>
           ELSE IF wavelength_count_diff < 0
             THEN /\ Raise("NameError")
                  /\ UNCHANGED wavelengths
             ELSE /\ GotoMain("push")
                  /\ UNCHANGED <<wavelengths, error>>
  /\ UNCHANGED <<world, now, is_setup, is_running, detector_connected,
                 data_fieldnames, has_been_injected, injection_time,
                 sample_timer, dataDir, dataFile, rows, gradIdx, loc, calls,
                 tk, observed, interrupts>>

(***************************************************************************)
(* _configure, lines 166-174: extend the header fields, and with a         *)
(* detector push the list and compare what the detector reports back.      *)
(***************************************************************************)
PushWavelengths ==
  /\ MainAt("push")
  /\ data_fieldnames' = data_fieldnames \o wavelengths
  /\ IF detector_connected
       THEN /\ calls' = [calls EXCEPT !.set_wavelengths = @ + 1,
                                      !.get_wavelengths = @ + 1]
            /\ \E echoed \in BOOLEAN :
                 IF echoed
                   THEN GotoMain("setup_end") /\ UNCHANGED error
                   ELSE Raise("WavelengthMismatch")
       ELSE /\ GotoMain("setup_end")
            /\ UNCHANGED <<calls, error>>
  /\ UNCHANGED <<world, now, is_setup, is_running, detector_connected,
                 wavelengths, has_been_injected, injection_time,
                 sample_timer, dataDir, dataFile, rows, gradIdx, loc, tk,
                 observed, interrupts>>

(***************************************************************************)
(* _setup, lines 100-103.                                                  *)
(***************************************************************************)
SetupEnd ==
  /\ MainAt("setup_end")
  /\ has_been_injected' = FALSE
  /\ injection_time' = None
  /\ is_setup' = TRUE
  /\ GotoMain("run_flag")
  /\ UNCHANGED <<world, now, is_running, detector_connected, wavelengths,
                 data_fieldnames, sample_timer, dataDir, dataFile, rows,
                 gradIdx, loc, error, calls, tk, observed, interrupts>>

(***************************************************************************)
(* start(), line 179.                                                      *)
(***************************************************************************)
StartRunFlag ==
  /\ MainAt("run_flag")
  /\ is_running' = TRUE
  /\ GotoMain("makedirs")
  /\ UNCHANGED <<world, now, is_setup, detector_connected, wavelengths,
                 data_fieldnames, has_been_injected, injection_time,
                 sample_timer, dataDir, dataFile, rows, gradIdx, loc, error,
                 calls, tk, observed, interrupts>>

(***************************************************************************)
(* start(), lines 182-190: the run's directory and the copy of the config. *)
(***************************************************************************)
StartMakeDirs ==
  /\ MainAt("makedirs")
  /\ dataDir' = TRUE
  /\ GotoMain("open")
  /\ UNCHANGED <<world, now, is_setup, is_running, detector_connected,
                 wavelengths, data_fieldnames, has_been_injected,
                 injection_time, sample_timer, dataFile, rows, gradIdx, loc,
                 error, calls, tk, observed, interrupts>>

(***************************************************************************)
(* start(), lines 191-199: the data file and its header.                   *)
(***************************************************************************)
StartOpenFile ==
  /\ MainAt("open")
  /\ dataFile' = "open"
  /\ GotoMain("timer_new")
  /\ UNCHANGED <<world, now, is_setup, is_running, detector_connected,
                 wavelengths, data_fieldnames, has_been_injected,
                 injection_time, sample_timer, dataDir, rows, gradIdx, loc,
                 error, calls, tk, observed, interrupts>>

(***************************************************************************)
(* start(), line 201 and line 202.  Timer.start() on a timer that was      *)
(* cancelled before it started never calls its function.                   *)
(***************************************************************************)
TimerStarted(t) == IF t = "created" THEN "pending" ELSE t

StartNewTimer ==
  /\ MainAt("timer_new")
  /\ sample_timer' = "created"
  /\ GotoMain("timer_start")
  /\ UNCHANGED <<world, now, is_setup, is_running, detector_connected,
                 wavelengths, data_fieldnames, has_been_injected,
                 injection_time, dataDir, dataFile, rows, gradIdx, loc,
                 error, calls, tk, observed, interrupts>>

StartTimerStart ==
  /\ MainAt("timer_start")
  /\ sample_timer' = TimerStarted(sample_timer)
  /\ GotoMain("returned")
  /\ UNCHANGED <<world, now, is_setup, is_running, detector_connected,
                 wavelengths, data_fieldnames, has_been_injected,
                 injection_time, dataDir, dataFile, rows, gradIdx, loc,
                 error, calls, tk, observed, interrupts>>


(***************************************************************************)
(* stop(), lines 257-264, run by `self`: the handler (line 67) or the tick *)
(* (line 220).  One action per statement, so that the two callers can      *)
(* interleave.                                                             *)
(***************************************************************************)
Stoppers == {"handler", "tick"}

TickDid(field) == tk' = [tk EXCEPT ![field] = @ + 1]

\* where the caller continues once stop() has returned: the handler is done
\* (lines 68-71 swallow its SystemExit), the tick returns (line 221)
AfterStopFallsThrough(self) == IF self = "tick" THEN "timer_new" ELSE "idle"

AfterStop(self) == "idle"

\* line 258, and the test of line 259
StopClearRunning(self) ==
  /\ pc[self] = "stop_flag"
  /\ is_running' = FALSE
  /\ pc' = [pc EXCEPT ![self] = IF is_setup THEN "stop_cancel" ELSE AfterStop(self)]
  /\ UNCHANGED <<world, now, is_setup, detector_connected, wavelengths,
                 data_fieldnames, has_been_injected, injection_time,
                 sample_timer, dataDir, dataFile, rows, gradIdx, loc, error,
                 calls, tk, observed, interrupts>>

\* Timer.cancel(): a timer that has not fired yet never will; one that has
\* fired is unaffected.
TimerCancelled(t) == IF t \in {"created", "pending"} THEN "cancelled" ELSE t

\* line 260; self._sample_timer is first bound at line 201, so before that
\* the attribute lookup raises AttributeError.
StopCancelTimer(self) ==
  /\ pc[self] = "stop_cancel"
  /\ IF sample_timer = "none"
       THEN /\ error' = "AttributeError"
            /\ pc' = IF self = "handler"
                       THEN [pc EXCEPT !.handler = "idle", !.main = "failed"]
                       ELSE [pc EXCEPT !.tick = "crashed"]
            /\ UNCHANGED sample_timer
       ELSE /\ sample_timer' = TimerCancelled(sample_timer)
            /\ pc' = [pc EXCEPT ![self] = "stop_hplc"]
            /\ UNCHANGED error
  /\ UNCHANGED <<world, now, is_setup, is_running, detector_connected,
                 wavelengths, data_fieldnames, has_been_injected,
                 injection_time, dataDir, dataFile, rows, gradIdx, loc,
                 calls, tk, observed, interrupts>>

\* line 261
StopController(self) ==
  /\ pc[self] = "stop_hplc"
  /\ Called("hplc_stop")
  /\ pc' = [pc EXCEPT ![self] = "stop_close"]
  /\ UNCHANGED <<world, now, is_setup, is_running, detector_connected,
                 wavelengths, data_fieldnames, has_been_injected,
                 injection_time, sample_timer, dataDir, dataFile, rows,
                 gradIdx, loc, error, tk, observed, interrupts>>

\* line 262; closing a file that is already closed is accepted by Python.
StopCloseFile(self) ==
  /\ pc[self] = "stop_close"
  /\ IF dataFile = "none"
       THEN /\ error' = "AttributeError"
            /\ pc' = IF self = "handler"
                       THEN [pc EXCEPT !.handler = "idle", !.main = "failed"]
                       ELSE [pc EXCEPT !.tick = "crashed"]
            /\ UNCHANGED <<dataFile, calls, tk>>
       ELSE /\ dataFile' = "closed"
            /\ Called("close")
            /\ IF self = "tick" THEN TickDid("closes") ELSE UNCHANGED tk
            /\ pc' = [pc EXCEPT ![self] = "stop_lamp"]
            /\ UNCHANGED error
  /\ UNCHANGED <<world, now, is_setup, is_running, detector_connected,
                 wavelengths, data_fieldnames, has_been_injected,
                 injection_time, sample_timer, dataDir, rows, gradIdx, loc,
                 observed, interrupts>>

\* lines 263-264, then the return to the caller: the handler swallows its
\* own SystemExit (lines 68-71), the tick returns (line 221).
StopTurnsLampOffAlways == TRUE

StopTurnsLampOff == detector_connected

StopLampOff(self) ==
  /\ pc[self] = "stop_lamp"
  /\ IF StopTurnsLampOff THEN Called("turn_lamp_off") ELSE UNCHANGED calls
  /\ pc' = [pc EXCEPT ![self] = AfterStop(self)]
  /\ UNCHANGED <<world, now, is_setup, is_running, detector_connected,
                 wavelengths, data_fieldnames, has_been_injected,
                 injection_time, sample_timer, dataDir, dataFile, rows,
                 gradIdx, loc, error, tk, observed, interrupts>>

(***************************************************************************)
(* _signal_handler, lines 66-67: SIGINT arrives while the process lives.   *)
(* The process lives while main() has not died of an exception and, once   *)
(* start() has returned, while a timer thread is waiting or running.       *)
(***************************************************************************)
ProcessAlive ==
  /\ pc.main # "failed"
  /\ \/ pc.main # "returned"
     \/ sample_timer = "pending"
     \/ pc.tick \notin {"idle", "crashed"}

Interrupt ==
  /\ ProcessAlive
  /\ pc.handler = "idle"
  /\ interrupts < MaxInterrupts
  /\ interrupts' = interrupts + 1
  /\ pc' = [pc EXCEPT !.handler = "stop_flag"]
  /\ UNCHANGED <<world, now, is_setup, is_running, detector_connected,
                 wavelengths, data_fieldnames, has_been_injected,
                 injection_time, sample_timer, dataDir, dataFile, rows,
                 gradIdx, loc, error, calls, tk, observed>>


(***************************************************************************)
(* The Timer thread: after the interval, a timer that was not cancelled    *)
(* calls _sample.  One second passes per firing.  A threading.Timer calls  *)
(* its function once.  The firing does not wait for an earlier _sample     *)
(* call; that none is executing then is C17, not a guard.                  *)
(***************************************************************************)
TimerAfterFireRearmed == "pending"

TimerAfterFire == "fired"

TimerFire ==
  /\ sample_timer = "pending"
  /\ now < MaxTicks
  /\ sample_timer' = TimerAfterFire
  /\ now' = now + 1
  /\ pc' = [pc EXCEPT !.tick = "check"]
  /\ loc' = NoLocals
  /\ tk' = NoTick
  /\ UNCHANGED <<world, is_setup, is_running, detector_connected,
                 wavelengths, data_fieldnames, has_been_injected,
                 injection_time, dataDir, dataFile, rows, gradIdx, error,
                 calls, observed, interrupts>>

GotoTick(label) == pc' = [pc EXCEPT !.tick = label]

(***************************************************************************)
(* _sample, line 205: the body runs only when set up and running;          *)
(* otherwise the call returns without rescheduling.                        *)
(***************************************************************************)
SampleEnabledWhenSetUp == is_setup

SampleEnabled == is_setup /\ is_running

SampleCheck ==
  /\ pc.tick = "check"
  /\ GotoTick(IF SampleEnabled THEN "gradient_info" ELSE "idle")
  /\ UNCHANGED <<world, now, is_setup, is_running, detector_connected,
                 wavelengths, data_fieldnames, has_been_injected,
                 injection_time, sample_timer, dataDir, dataFile, rows,
                 gradIdx, loc, error, calls, tk, observed, interrupts>>

(***************************************************************************)
(* _sample, lines 206-209: get_gradient_info() and the defaults.           *)
(***************************************************************************)
SampleGradientInfo ==
  /\ pc.tick = "gradient_info"
  /\ \E state \in Phases, concentration \in Concentrations :
       /\ loc' = [loc EXCEPT !.gradient_state = state,
                             !.concentration = concentration,
                             !.detector_status = "NOT_CONNECTED",
                             !.got_absorbances = FALSE]
       /\ tk' = [tk EXCEPT !.phase = state]
       /\ observed' = Append(observed, state)
  /\ Called("get_gradient_info")
  /\ GotoTick("status")
  /\ UNCHANGED <<world, now, is_setup, is_running, detector_connected,
                 wavelengths, data_fieldnames, has_been_injected,
                 injection_time, sample_timer, dataDir, dataFile, rows,
                 gradIdx, error, interrupts>>

(***************************************************************************)
(* _sample, lines 210-211: the first status read.                          *)
(***************************************************************************)
SampleStatus ==
  /\ pc.tick = "status"
  /\ IF detector_connected
       THEN /\ \E status \in DetectorStatuses :
                 loc' = [loc EXCEPT !.detector_status = status]
            /\ Called("get_status")
       ELSE UNCHANGED <<loc, calls>>
  /\ GotoTick("branch")
  /\ UNCHANGED <<world, now, is_setup, is_running, detector_connected,
                 wavelengths, data_fieldnames, has_been_injected,
                 injection_time, sample_timer, dataDir, dataFile, rows,
                 gradIdx, error, tk, observed, interrupts>>

(***************************************************************************)
(* _sample, lines 212-222: not started -> diagnostics only, then line 254; *)
(* FINISHED -> stop() and return; any other state -> lines 223-253.        *)
(***************************************************************************)
InProgress(state) == state \notin {"GRADIENT_NOT_STARTED", "FINISHED"}

AfterFinishedReschedules == "timer_new"

AfterFinished == "stop_flag"

SampleBranch ==
  /\ pc.tick = "branch"
  /\ IF loc.gradient_state = "GRADIENT_NOT_STARTED"
       THEN GotoTick("timer_new") /\ UNCHANGED tk
       ELSE IF loc.gradient_state = "FINISHED"
         THEN GotoTick(AfterFinished) /\ TickDid("stops")
         ELSE GotoTick("inject") /\ UNCHANGED tk
  /\ UNCHANGED <<world, now, is_setup, is_running, detector_connected,
                 wavelengths, data_fieldnames, has_been_injected,
                 injection_time, sample_timer, dataDir, dataFile, rows,
                 gradIdx, loc, error, calls, observed, interrupts>>

(***************************************************************************)
(* _sample, lines 223-231: the first in-progress tick is the injection.    *)
(***************************************************************************)
FirstInjectionEveryTick == TRUE

FirstInjection == ~has_been_injected

AutozeroSkipped == FALSE

AutozeroWanted == detector_connected

SampleInject ==
  /\ pc.tick = "inject"
  /\ IF FirstInjection
       THEN /\ has_been_injected' = TRUE
            /\ injection_time' = now
            /\ IF AutozeroWanted
                 THEN Called("autozero")
                 ELSE UNCHANGED calls
       ELSE UNCHANGED <<has_been_injected, injection_time, calls>>
  /\ GotoTick("measure")
  /\ UNCHANGED <<world, now, is_setup, is_running, detector_connected,
                 wavelengths, data_fieldnames, sample_timer, dataDir,
                 dataFile, rows, gradIdx, loc, error, tk, observed, interrupts>>

(***************************************************************************)
(* _sample, lines 232-241: the second status read decides whether          *)
(* absorbances are read; without a detector they are zeros.                *)
(***************************************************************************)
DetectorAbsorbances(reading) == [i \in 1..Len(wavelengths) |-> reading + i]

SyntheticAbsorbancesMissing == <<>>

SyntheticAbsorbances == [i \in 1..Len(wavelengths) |-> 0]

MeasuringWhenConnected(status) == status # "NOT_CONNECTED"

Measuring(status) == status = "MEASUREMENT"

SampleMeasure ==
  /\ pc.tick = "measure"
  /\ IF detector_connected
       THEN \E status \in DetectorStatuses :
              /\ tk' = [tk EXCEPT !.measured = status]
              /\ IF Measuring(status)
                   THEN /\ \E reading \in AbsorbanceReadings :
                             loc' = [loc EXCEPT
                                       !.detector_status = status,
                                       !.absorbances = DetectorAbsorbances(reading),
                                       !.got_absorbances = TRUE]
                        /\ calls' = [calls EXCEPT !.get_status = @ + 1,
                                                  !.get_absorbances = @ + 1]
                   ELSE /\ loc' = [loc EXCEPT !.detector_status = status]
                        /\ Called("get_status")
       ELSE /\ loc' = [loc EXCEPT !.absorbances = SyntheticAbsorbances,
                                  !.got_absorbances = TRUE]
            /\ UNCHANGED <<calls, tk>>
  /\ GotoTick("write")
  /\ UNCHANGED <<world, now, is_setup, is_running, detector_connected,
                 wavelengths, data_fieldnames, has_been_injected,
                 injection_time, sample_timer, dataDir, dataFile, rows,
                 gradIdx, error, observed, interrupts>>

(***************************************************************************)
(* _sample, lines 242-253: shape the row and write it.                     *)
(* Numbers are carried as what the format strings print: f'{x:.3f}' as     *)
(* thousandths, '{:.2f}' as hundredths (absorbances arrive in thousandths).*)
(***************************************************************************)
Fmt3Minutes(seconds) == (seconds * 1000 + SECONDS_PER_MINUTE \div 2) \div SECONDS_PER_MINUTE

Fmt2(thousandths) == (thousandths + 5) \div 10

Min(a, b) == IF a <= b THEN a ELSE b

\* data[wavelength] = ... over zip(self._wavelengths, absorbances): a later
\* pair with the same wavelength overwrites an earlier one.
DataOf(key, absorbances) ==
  LET n == Min(Len(wavelengths), Len(absorbances))
      hits == {j \in 1..n : wavelengths[j] = key}
  IN  IF hits = {} THEN None
      ELSE Fmt2(absorbances[CHOOSE j \in hits : \A k \in hits : k <= j])

\* DictWriter writes one cell per fieldname, in header order.
\* `at` is not a cell: it records time.time() at the write, for the
\* properties that relate a row to the tick that wrote it.
MakeRow ==
  [duration |-> Fmt3Minutes(now - injection_time),
   gradient_state |-> loc.gradient_state,
   concentration |-> loc.concentration,
   detector_status |-> loc.detector_status,
   absorbance |-> [i \in 1..(Len(data_fieldnames) - Len(BaseFieldnames)) |->
                     DataOf(data_fieldnames[i + Len(BaseFieldnames)], loc.absorbances)],
   at |-> now]

\* Writing to a closed file raises ValueError, which ends the timer thread.
SampleWrite ==
  /\ pc.tick = "write"
  /\ IF loc.got_absorbances
       THEN IF dataFile = "open"
              THEN /\ rows' = Append(rows, MakeRow)
                   /\ TickDid("rows")
                   /\ GotoTick("timer_new")
                   /\ UNCHANGED error
              ELSE /\ error' = "ValueError"
                   /\ GotoTick("crashed")
                   /\ UNCHANGED <<rows, tk>>
       ELSE /\ GotoTick("timer_new")
            /\ UNCHANGED <<rows, tk, error>>
  /\ UNCHANGED <<world, now, is_setup, is_running, detector_connected,
                 wavelengths, data_fieldnames, has_been_injected,
                 injection_time, sample_timer, dataDir, dataFile, gradIdx,
                 loc, calls, observed, interrupts>>

(***************************************************************************)
(* _sample, line 254 and line 255: the next timer.                         *)
(***************************************************************************)
SampleNewTimer ==
  /\ pc.tick = "timer_new"
  /\ sample_timer' = "created"
  /\ GotoTick("timer_start")
  /\ UNCHANGED <<world, now, is_setup, is_running, detector_connected,
                 wavelengths, data_fieldnames, has_been_injected,
                 injection_time, dataDir, dataFile, rows, gradIdx, loc,
                 error, calls, tk, observed, interrupts>>

SampleTimerStart ==
  /\ pc.tick = "timer_start"
  /\ sample_timer' = TimerStarted(sample_timer)
  /\ TickDid("scheduled")
  /\ GotoTick("idle")
  /\ UNCHANGED <<world, now, is_setup, is_running, detector_connected,
                 wavelengths, data_fieldnames, has_been_injected,
                 injection_time, dataDir, dataFile, rows, gradIdx, loc,
                 error, calls, observed, interrupts>>

(***************************************************************************)
(* A device call made by _sample raises (the bus times out, the device     *)
(* answers with an error).  _sample has no try statement and Timer.run     *)
(* none either: the exception ends the timer thread at that statement.     *)
(* At line 229 the two assignments of lines 224-225 have already been made.*)
(***************************************************************************)
DeviceCallSites ==
  {"gradient_info", "stop_hplc"}
    \cup (IF detector_connected
            THEN {"status", "measure", "stop_lamp"}
                   \cup (IF ~has_been_injected THEN {"inject"} ELSE {})
            ELSE {})

SampleDeviceError ==
  /\ pc.tick \in DeviceCallSites
  /\ error' = "DeviceError"
  /\ GotoTick("crashed")
  /\ IF pc.tick = "inject"
       THEN /\ has_been_injected' = TRUE
            /\ injection_time' = now
       ELSE UNCHANGED <<has_been_injected, injection_time>>
  /\ UNCHANGED <<world, now, is_setup, is_running, detector_connected,
                 wavelengths, data_fieldnames, sample_timer, dataDir,
                 dataFile, rows, gradIdx, loc, calls, tk, observed,
                 interrupts>>

(***************************************************************************)
(* Specifications.                                                         *)
(***************************************************************************)
\* config.yaml files and controller contents of the full-run specification
RunGradients == {<<2, 1>>}
RunHeld == {<<2, 1>>, <<2, 2>>}
RunWavelengths == {<<254, 280, 300>>, <<254, 280, 254, 300, 320>>}

Init ==
  /\ InitObject
  /\ Worlds
  /\ gradient \in RunGradients
  /\ held \in RunHeld
  /\ requested \in RunWavelengths

SetupNext ==
  \/ StartEnter
  \/ LoadConfigFile
  \/ SetupModularClients
  \/ ConfigureGradient
  \/ NormalizeWavelengths
  \/ PushWavelengths
  \/ SetupEnd

Next ==
  \/ SetupNext
  \/ StartRunFlag
  \/ StartMakeDirs
  \/ StartOpenFile
  \/ StartNewTimer
  \/ StartTimerStart
  \/ Interrupt
  \/ \E self \in Stoppers :
       \/ StopClearRunning(self)
       \/ StopCancelTimer(self)
       \/ StopController(self)
       \/ StopCloseFile(self)
       \/ StopLampOff(self)
  \/ TimerFire
  \/ SampleCheck
  \/ SampleGradientInfo
  \/ SampleStatus
  \/ SampleBranch
  \/ SampleInject
  \/ SampleMeasure
  \/ SampleWrite
  \/ SampleNewTimer
  \/ SampleTimerStart

Spec == Init /\ [][Next]_vars

\* Scheduling: a started Timer thread that is not cancelled calls its
\* function once the interval has passed, and the thread then runs _sample
\* (and the stop() it calls) statement after statement while every device
\* call returns.  Nothing is assumed of the arrival of SIGINT.
TickNext ==
  \/ SampleCheck
  \/ SampleGradientInfo
  \/ SampleStatus
  \/ SampleBranch
  \/ SampleInject
  \/ SampleMeasure
  \/ SampleWrite
  \/ SampleNewTimer
  \/ SampleTimerStart
  \/ StopClearRunning("tick")
  \/ StopCancelTimer("tick")
  \/ StopController("tick")
  \/ StopCloseFile("tick")
  \/ StopLampOff("tick")

SpecFair == Spec /\ WF_vars(TimerFire) /\ WF_vars(TickNext)

\* the same program on a bus whose calls may fail during a tick
FaultyNext ==
  \/ Next
  \/ SampleDeviceError

SpecFaulty == Init /\ [][FaultyNext]_vars

\* start() up to the end of _setup, over every bounded configuration
InitConfigure ==
  /\ InitObject
  /\ Worlds
  /\ gradient \in SeqsUpTo(PropertyValues, MaxProps)
  /\ held \in [1..Len(gradient) -> PropertyValues]
  /\ requested \in SeqsUpTo(WavelengthValues, MaxLen)

SpecConfigure == InitConfigure /\ [][SetupNext]_vars

\* start() is straight-line code on the main thread: the while loop of
\* _configure keeps iterating as long as it has an iteration to run.
SpecConfigureFair == SpecConfigure /\ WF_vars(NormalizeWavelengths)

TypeOK ==
  /\ is_setup \in BOOLEAN
  /\ is_running \in BOOLEAN
  /\ sample_timer \in {"none", "created", "pending", "cancelled", "fired"}
  /\ dataFile \in {"none", "open", "closed"}
  /\ Len(rows) <= MaxTicks


(***************************************************************************)
(* Properties of the sampling loop.                                        *)
(***************************************************************************)
TickReturned == pc.tick = "idle" /\ tk.phase # ""

InProgressTicks == {i \in DOMAIN observed : InProgress(observed[i])}

\* C1: a _sample call that is given FINISHED calls stop() once, closes the
\* data file once, writes no row and starts no timer; it is the last call,
\* and when no SIGINT was delivered the controller was stopped once and the
\* file closed once in the whole run.
C1_FinishedTickStopsOnce ==
  tk.phase = "FINISHED" =>
    /\ tk.rows = 0
    /\ tk.scheduled = 0
    /\ tk.stops <= 1
    /\ tk.closes <= 1
    /\ pc.tick \notin {"inject", "measure", "write", "timer_new",
                       "timer_start", "crashed"}
    /\ sample_timer \in {"fired"}
    /\ TickReturned =>
         /\ tk.stops = 1
         /\ tk.closes = 1
         /\ dataFile = "closed"
         /\ ~is_running
         /\ interrupts = 0 => calls.close = 1 /\ calls.hplc_stop = 1

C1_Witness ==
  /\ TickReturned
  /\ tk.phase = "FINISHED"
  /\ tk.stops = 1
  /\ tk.closes = 1
  /\ Len(rows) > 0

\* C2: with a detector, a _sample call writes a row only when the status it
\* read at line 233 is MEASUREMENT; a call that found the detector in any
\* other status writes none, and every row carries MEASUREMENT.
C2_RowOnlyWhenMeasuring ==
  detector_connected =>
    /\ tk.rows <= 1
    /\ tk.rows = 1 => tk.measured = "MEASUREMENT"
    /\ (tk.measured # "" /\ tk.measured # "MEASUREMENT") => tk.rows = 0
    /\ \A k \in DOMAIN rows : rows[k].detector_status = "MEASUREMENT"
    /\ Len(rows) <= calls.get_absorbances

C2_Witness ==
  /\ detector_connected
  /\ TickReturned
  /\ InProgress(tk.phase)
  /\ tk.measured = "AUTOZERO"
  /\ tk.rows = 0
  /\ Len(rows) = 1
  /\ rows[1].detector_status = "MEASUREMENT"

\* C3: without a detector and without SIGINT, once a _sample call has
\* returned the file holds exactly one row per call that was given an
\* in-progress state, in order, none for GRADIENT_NOT_STARTED or FINISHED;
\* FINISHED is the last state any call is given.  Every row (interrupted
\* or not) carries NOT_CONNECTED and WAVELENGTH_COUNT zero absorbances, and
\* get_status is never called.
ZeroRow(row) ==
  /\ row.detector_status = "NOT_CONNECTED"
  /\ row.absorbance = [i \in 1..WAVELENGTH_COUNT |-> 0]

C3_NoDetectorRows ==
  (is_setup /\ ~detector_connected) =>
    /\ calls.get_status = 0
    /\ calls.get_absorbances = 0
    /\ \A k \in DOMAIN rows : ZeroRow(rows[k]) /\ rows[k].at \in InProgressTicks
    /\ \A i \in DOMAIN observed : observed[i] = "FINISHED" => i = Len(observed)
    /\ (interrupts = 0 /\ pc.tick = "idle") =>
         /\ Len(rows) = Cardinality(InProgressTicks)
         /\ \A i \in InProgressTicks : \E k \in DOMAIN rows : rows[k].at = i
         /\ \A k \in DOMAIN rows : \A m \in DOMAIN rows :
              k < m => rows[k].at < rows[m].at

C3_Witness ==
  /\ is_setup
  /\ ~detector_connected
  /\ interrupts = 0
  /\ TickReturned
  /\ observed = <<"GRADIENT_NOT_STARTED", "RUNNING", "FINISHED">>
  /\ Len(rows) = 1
  /\ ZeroRow(rows[1])

\* C4 as claimed: once a _sample call has been given a state other than
\* GRADIENT_NOT_STARTED and has got past the injection test, the injection
\* is recorded, stamped with the time of the first such call.
LeftNotStarted == {i \in DOMAIN observed : observed[i] # "GRADIENT_NOT_STARTED"}

First(S) == CHOOSE i \in S : \A j \in S : i <= j

PastInjection == pc.tick \in {"idle", "measure", "write", "timer_new",
                              "timer_start", "crashed", "stop_flag",
                              "stop_cancel", "stop_hplc", "stop_close",
                              "stop_lamp"}

C4_InjectedOnLeavingNotStarted ==
  (LeftNotStarted # {} /\ PastInjection) =>
    /\ has_been_injected
    /\ injection_time = First(LeftNotStarted)

\* C4 amended: the injection is recorded at the first _sample call that is
\* given an in-progress state (neither GRADIENT_NOT_STARTED nor FINISHED),
\* and at no call if there is none; its time stamp is that call's time and
\* never another; every row's duration is measured from it.
C4_InjectionOnce ==
  /\ has_been_injected <=> injection_time # None
  /\ has_been_injected =>
       /\ InProgressTicks # {}
       /\ injection_time = First(InProgressTicks)
  /\ (InProgressTicks # {} /\ PastInjection) => has_been_injected
  /\ \A k \in DOMAIN rows :
       /\ has_been_injected
       /\ rows[k].at >= injection_time
       /\ rows[k].duration = Fmt3Minutes(rows[k].at - injection_time)

C4_Witness ==
  /\ observed = <<"GRADIENT_NOT_STARTED", "RUNNING", "RUNNING">>
  /\ injection_time = 2
  /\ Len(rows) = 2
  /\ rows[1].duration = 0
  /\ rows[2].duration = 17


(***************************************************************************)
(* Properties of configuration and start-up.                               *)
(***************************************************************************)
BeforeNormalization == {"start", "load_config", "clients", "gradient"}

NormalizationOver ==
  /\ pc.main \notin BeforeNormalization \cup {"normalize"}
  /\ error \notin {"ControllerNotConnected", "DetectorInterfaceNotConnected",
                   "GradientMismatch"}

PadWithLast(s) == s \o [i \in 1..(WAVELENGTH_COUNT - Len(s)) |-> s[Len(s)]]

\* C5: once _configure is past its normalization loop, a requested list of
\* 0 < L < WAVELENGTH_COUNT entries has become those entries followed by
\* copies of the last one, and no error was raised by the loop.
C5_PadsShortList ==
  (Len(requested) \in 1..(WAVELENGTH_COUNT - 1) /\ NormalizationOver) =>
    /\ wavelengths = PadWithLast(requested)
    /\ error # "NameError"

\* C6: for a requested list of L >= WAVELENGTH_COUNT entries the loop keeps
\* a prefix of the request of at least WAVELENGTH_COUNT entries, ends with
\* exactly the first WAVELENGTH_COUNT entries, raises nothing, and does end.
C6_Truncated ==
  Len(requested) >= WAVELENGTH_COUNT =>
    /\ error # "NameError"
    /\ pc.main = "normalize" =>
         /\ Len(wavelengths) >= WAVELENGTH_COUNT
         /\ wavelengths = SubSeq(requested, 1, Len(wavelengths))
    /\ NormalizationOver =>
         wavelengths = SubSeq(requested, 1, WAVELENGTH_COUNT)

C6_TruncatesLongList ==
  /\ []C6_Truncated
  /\ (pc.main = "normalize" /\ Len(requested) >= WAVELENGTH_COUNT)
       ~> (pc.main = "push")

C6_Witness ==
  /\ Len(requested) = WAVELENGTH_COUNT + 1
  /\ requested[WAVELENGTH_COUNT + 1] # requested[1]
  /\ pc.main = "push"
  /\ wavelengths = SubSeq(requested, 1, WAVELENGTH_COUNT)

\* C7: every read-back of a gradient property follows a write of its
\* target, so _configure never fails on a gradient property.
C7_SetThenReadBack ==
  /\ calls.property_set = calls.property_get
  /\ error # "GradientMismatch"

\* C8: _configure fails with the gradient mismatch exactly at the first
\* property whose read-back differs from its target: no later property has
\* been read, the wavelength list has not been bound, normalized or pushed,
\* and nothing is passed the loop while a property differs.
C8_FailFast ==
  /\ error = "GradientMismatch" =>
       /\ pc.main = "failed"
       /\ gradIdx < Len(gradient)
       /\ gradient[gradIdx + 1] # held[gradIdx + 1]
       /\ \A j \in 1..gradIdx : gradient[j] = held[j]
       /\ calls.property_get = gradIdx + 1
       /\ calls.set_wavelengths = 0
       /\ calls.get_wavelengths = 0
       /\ wavelengths = <<>>
       /\ data_fieldnames = BaseFieldnames
       /\ ~is_setup
  /\ (pc.main \notin BeforeNormalization /\ error \notin
        {"ControllerNotConnected", "DetectorInterfaceNotConnected"}) =>
       \/ error = "GradientMismatch"
       \/ \A j \in DOMAIN gradient : gradient[j] = held[j]

C8_Witness ==
  /\ error = "GradientMismatch"
  /\ Len(gradient) >= 2
  /\ gradIdx = 0
  /\ gradient[2] # held[2]
  /\ calls.property_get = 1

\* C9: when start() has failed in _setup, no run directory and no data file
\* exist, no timer was created, no _sample call ran, and is_setup is False.
C9_SetupFailureCreatesNothing ==
  error \in SetupErrors =>
    /\ pc.main = "failed"
    /\ ~dataDir
    /\ dataFile = "none"
    /\ rows = <<>>
    /\ sample_timer = "none"
    /\ pc.tick = "idle"
    /\ now = 0
    /\ observed = <<>>
    /\ ~is_setup
    /\ ~is_running

C9_Witness ==
  /\ error = "WavelengthMismatch"
  /\ pc.main = "failed"
  /\ calls.turn_lamp_on = 1
  /\ interrupts > 0

\* C10, for a run whose terminations are a FINISHED tick and at most one
\* SIGINT, in either order: the controller is stopped, the data file closed
\* and the lamp turned off at most once each.
C10_StopEffectsOnce ==
  (interrupts <= 1) =>
  /\ calls.hplc_stop <= 1
  /\ calls.close <= 1
  /\ calls.turn_lamp_off <= 1


(***************************************************************************)
(* Properties of termination and of the interplay of stop() and ticks.     *)
(***************************************************************************)
\* C11: once a device call has raised inside a _sample call, the data file
\* is closed, the controller has been told to stop, the loop is not marked
\* running and no timer is created or pending.
C11_DeviceErrorAbortsRun ==
  error = "DeviceError" =>
    /\ dataFile = "closed"
    /\ calls.hplc_stop >= 1
    /\ ~is_running
    /\ sample_timer \notin {"created", "pending"}


\* C12: when get_detector_info() fails at set-up, no operation of the
\* detector is called afterwards, in _configure, in any _sample call or in
\* stop(), and start() raises neither of the detector's errors.
DetectorCalls ==
  calls.set_wavelengths + calls.get_wavelengths + calls.turn_lamp_on
    + calls.turn_lamp_off + calls.autozero + calls.get_status
    + calls.get_absorbances

C12_AbsentDetectorUntouched ==
  ~detectorPresent =>
    /\ ~detector_connected
    /\ DetectorCalls = 0
    /\ error # "WavelengthMismatch"
    /\ udiConnected => error # "DetectorInterfaceNotConnected"

C12_Witness ==
  /\ udiConnected
  /\ ~detectorPresent
  /\ TickReturned
  /\ tk.phase = "FINISHED"
  /\ tk.closes = 1
  /\ Len(rows) >= 1
  /\ interrupts >= 1
  /\ calls.hplc_stop >= 2


\* C13: with a detector, the lamp has been turned on (once) before the first
\* timer exists, hence before any absorbance is read; and once a stop() call
\* that found the system set up has ended, the lamp has been turned off.
StopLabels == {"stop_flag", "stop_cancel", "stop_hplc", "stop_close", "stop_lamp"}

StopEnded ==
  \/ error = "AttributeError"
  \/ /\ calls.hplc_stop >= 1
     /\ pc.handler \notin StopLabels
     /\ pc.tick \notin StopLabels

C13_LampOnThenOff ==
  detector_connected =>
    /\ calls.turn_lamp_on = 1
    /\ calls.get_absorbances >= 1 => sample_timer # "none"
    /\ StopEnded => calls.turn_lamp_off >= 1


\* C14: after a successful start(), with no SIGINT, a _sample call that was
\* given a state other than FINISHED has started the next timer when it
\* returns; and a _sample call that is given FINISHED leads to the stopped
\* state: not running, controller stopped, file closed, no timer created or
\* pending, no _sample call executing.
Stopped ==
  /\ ~is_running
  /\ calls.hplc_stop >= 1
  /\ dataFile = "closed"
  /\ sample_timer \notin {"created", "pending"}
  /\ pc.tick = "idle"

C14_Reschedules ==
  (interrupts = 0 /\ TickReturned /\ tk.phase # "FINISHED") =>
    /\ tk.scheduled = 1
    /\ sample_timer = "pending"
    /\ is_running

C14_LoopRunsUntilFinished ==
  /\ []C14_Reschedules
  /\ (sample_timer = "pending" /\ now < MaxTicks /\ interrupts = 0)
       ~> (pc.tick = "check" \/ interrupts > 0)
  /\ (tk.phase = "FINISHED") ~> Stopped

C14_Witness ==
  /\ Stopped
  /\ interrupts = 0
  /\ observed = <<"GRADIENT_NOT_STARTED", "RUNNING", "FINISHED">>
  /\ tk.stops = 1


\* C15: once a stop() call has cancelled the timer (and gone on to stop
\* the controller), no timer is pending: a _sample call in flight does not
\* start another one.
C15_NoTimerAfterStop ==
  calls.hplc_stop >= 1 => sample_timer # "pending"


\* C16: a _sample call that starts when the loop is not marked running
\* (stop() was invoked while its timer was queued) returns at line 205: it
\* reads no device, writes no row and creates no timer; and a _sample call
\* enters its body only when is_setup and is_running hold.
TickReads(c) == <<c.get_gradient_info, c.get_status, c.get_absorbances, c.autozero>>

C16_Step ==
  /\ (pc.tick = "check" /\ ~(is_setup /\ is_running)) =>
       /\ pc'.tick \in {"check", "idle"}
       /\ TickReads(calls') = TickReads(calls)
       /\ rows' = rows
       /\ sample_timer' = sample_timer
       /\ observed' = observed
       /\ tk' = tk
  /\ (pc.tick = "check" /\ pc'.tick \notin {"check", "idle"}) =>
       /\ is_setup /\ is_running
       /\ pc'.tick = "gradient_info"

C16_QueuedTickIsNoOp == [][C16_Step]_vars

C16_Witness ==
  /\ now >= 1
  /\ pc.tick = "idle"
  /\ tk = NoTick
  /\ sample_timer = "fired"
  /\ ~is_running
  /\ Len(observed) < now


C18_AutozeroOnceAtInjection ==
  detector_connected =>
    /\ calls.autozero = (IF has_been_injected THEN 1 ELSE 0)
    /\ calls.get_absorbances >= 1 => calls.autozero = 1
    /\ \A k \in DOMAIN rows : calls.autozero = 1 /\ rows[k].at >= injection_time

C18_Witness ==
  /\ detector_connected
  /\ calls.autozero = 1
  /\ calls.get_absorbances = 2
  /\ Len(rows) = 2
  /\ observed = <<"GRADIENT_NOT_STARTED", "RUNNING", "RUNNING">>


\* C19: once the data file has been closed, no step writes a row to it, and
\* no step of _sample calls the detector (get_status, autozero,
\* get_absorbances) or reaches the writerow of line 253.
C19_NothingAfterClose ==
  [][dataFile = "closed" =>
       /\ rows' = rows
       /\ calls'.get_status = calls.get_status
       /\ calls'.autozero = calls.autozero
       /\ calls'.get_absorbances = calls.get_absorbances
       /\ pc'.tick = "write" => pc.tick = "write"]_vars


\* C20: stop() raises nothing, whenever the interrupt handler calls it
\* (before start(), inside start(), during a _sample call, after the run),
\* and each stop() that has ended has left is_running false.
C20_StopNeverRaises ==
  /\ error # "AttributeError"
  /\ pc.handler \in StopLabels \ {"stop_flag"} => ~is_running

=============================================================================
